---- MODULE Spec2Model ----
(***************************************************************************)
(* A model of src/index.ts: the create_pdf tool of the MDXPDF MCP server.  *)
(* The file holds two revisions of the server; the model is of the second, *)
(* Mermaid-aware one (from line 191 on).                                   *)
(*                                                                         *)
(* Strings are sequences of tokens.  In a markdown document the tokens are *)
(*   "F"  three backticks          "M"  the word mermaid                   *)
(*   "N"  a newline                "A"  any other visible character        *)
(* In a file name the tokens are "a" (a name character), ".." and "/".     *)
(***************************************************************************)
EXTENDS Integers, Sequences, FiniteSets, TLC

VARIABLES
    env,      \* process.env.SAVE_PATH: a directory, or unset
    fs,       \* the file system: path -> content, for the files that exist
    pc,       \* per handler invocation slot: where the async handler is
    req,      \* per slot: the request being handled
    held,     \* per slot: the staging text the conversion engine has read
    resp,     \* per slot: the response the handler returned
    log,      \* per slot: the I/O calls and returns of this request, in order
    remaining,\* number of requests still to arrive in this behaviour
    everFailed,\* some request has been answered with a failure
    psrc,     \* preprocessor run: the markdown_source
    pout,     \* preprocessor run: processedMarkdown
    pstage    \* preprocessor run: "ready" or "done"

vars == <<env, fs, pc, req, held, resp, log, remaining, everFailed,
          psrc, pout, pstage>>

(***************************************************************************)
(* Bounds of the model.                                                    *)
(***************************************************************************)
MaxLen == 6          \* longest markdown_source given to the preprocessor run
MaxRequests == 2     \* requests accepted in one behaviour
MaxFairRequests == 1 \* requests accepted in one behaviour of the fair specification

Procs == {"h1", "h2"}   \* concurrently running invocations of the handler

(***************************************************************************)
(* The Mermaid preprocessing: String.prototype.replace with the global     *)
(* regular expression /```mermaid\n([\s\S]*?)\n```/g and a replacer.       *)
(***************************************************************************)
Tok == {"F", "M", "N", "A"}

RECURSIVE SeqsUpTo(_, _)
SeqsUpTo(S, n) ==
    IF n = 0 THEN {<<>>}
    ELSE LET shorter == SeqsUpTo(S, n - 1)
         IN  shorter \cup {Append(s, x) : s \in {t \in shorter : Len(t) = n - 1}, x \in S}

\* s has pat at position i
StartsWith(s, i, pat) ==
    /\ i + Len(pat) - 1 <= Len(s)
    /\ \A k \in 1..Len(pat) : s[i + k - 1] = pat[k]

FenceOpen == <<"F", "M", "N">>     \* ```mermaid\n
FenceClose == <<"N", "F">>         \* \n```

IsSpace(c) == c = "N"

\* String.prototype.trim
RECURSIVE TrimLeft(_)
TrimLeft(s) == IF s # <<>> /\ IsSpace(Head(s)) THEN TrimLeft(Tail(s)) ELSE s

RECURSIVE TrimRight(_)
TrimRight(s) ==
    IF s # <<>> /\ IsSpace(s[Len(s)]) THEN TrimRight(SubSeq(s, 1, Len(s) - 1)) ELSE s

trim(s) == TrimRight(TrimLeft(s))

\* the replacer: (_, code) => `<div class="mermaid">\n${code.trim()}\n</div>`
replacer(code) == <<"<div class=\"mermaid\">", "N">> \o trim(code) \o <<"N", "</div>">>

\* The lazy group ([\s\S]*?) followed by \n```: the first position j at or
\* after `from` where \n``` starts; 0 when there is none (no match).
LazyClose(s, from) ==
    LET js == {j \in from..Len(s) : StartsWith(s, j, FenceClose)}
    IN  IF js = {} THEN 0 ELSE CHOOSE j \in js : \A k \in js : j <= k

\* The scan of a /g replace: leftmost match, replaced, and the scan goes on
\* after the match; a position with no match is copied.
RECURSIVE ReplaceFrom(_, _)
ReplaceFrom(s, i) ==
    IF i > Len(s) THEN <<>>
    ELSE LET j == IF StartsWith(s, i, FenceOpen) THEN LazyClose(s, i + 3) ELSE 0
         IN  IF j # 0
             THEN replacer(SubSeq(s, i + 3, j - 1)) \o ReplaceFrom(s, j + 2)
             ELSE <<s[i]>> \o ReplaceFrom(s, i + 1)

processedMarkdown(markdown_source) == ReplaceFrom(markdown_source, 1)

(***************************************************************************)
(* JavaScript values of a request: name and arguments (request.params).    *)
(***************************************************************************)
Undefined == [kind |-> "undefined", val |-> <<>>]
Number == [kind |-> "number", val |-> <<>>]
Str(s) == [kind |-> "string", val |-> s]

FileNames == {<<>>, <<"a">>, <<"..", "/", "a">>}
Markdowns == {<<>>, <<"A">>, <<"F", "M", "N", "A", "N", "F">>}

FileNameValues == {Undefined, Number} \cup {Str(s) : s \in FileNames}
MarkdownValues == {Undefined} \cup {Str(s) : s \in Markdowns}

NoArgs == [kind |-> "undefined", file_name |-> Undefined, markdown_source |-> Undefined]
ArgsValues ==
    {NoArgs} \cup
    [kind : {"object"}, file_name : FileNameValues, markdown_source : MarkdownValues]

ToolNames == {"create_pdf", "other_tool"}
Requests == [name : ToolNames, arguments : ArgsValues]
NoReq == [name |-> "", arguments |-> NoArgs]

\* !args is false
Truthy(args) == args.kind # "undefined"

\* a guard that forgets the markdown_source conjuncts
isCreatePDFArgs_noMarkdownCheck(args) ==
    /\ args.kind = "object"
    /\ args.file_name.kind = "string"

isCreatePDFArgs(args) ==
    /\ args.kind = "object"
    /\ args.file_name.kind = "string"
    /\ args.markdown_source.kind = "string"

(***************************************************************************)
(* Paths.  A path string is a token sequence; the file system resolves it  *)
(* to the sequence of its segments, "/" separating segments and a ".."     *)
(* segment leaving the directory reached so far.                           *)
(***************************************************************************)
DefaultSavePath == <<"/", "home", "/", "GeneratedPDF">>
EnvSavePath == <<"/", "srv", "/", "out">>
Unset == <<>>

\* process.env.SAVE_PATH || '/home/murali/Documents/GeneratedPDF'
save_path == IF env = Unset THEN DefaultSavePath ELSE env

mdPathOf(file_name) == save_path \o <<"/">> \o file_name \o <<".md">>
pdfPathOf(file_name) == save_path \o <<"/">> \o file_name \o <<".pdf">>

\* Resolve(str, i, dir, seg): dir is the list of segments resolved so far,
\* seg the segment being read; i the next token of str.
RECURSIVE Resolve(_, _, _, _)
Resolve(str, i, dir, seg) ==
    LET closeSeg ==
            IF seg = <<>> THEN dir
            ELSE IF seg = <<"..">>
                 THEN (IF dir = <<>> THEN dir ELSE SubSeq(dir, 1, Len(dir) - 1))
                 ELSE Append(dir, seg)
    IN  IF i > Len(str) THEN closeSeg
        ELSE IF str[i] = "/" THEN Resolve(str, i + 1, closeSeg, <<>>)
        ELSE Resolve(str, i + 1, dir, Append(seg, str[i]))

ResolvePath(str) == Resolve(str, 1, <<>>, <<>>)

DirOf(path) == IF path = <<>> THEN <<>> ELSE SubSeq(path, 1, Len(path) - 1)

(***************************************************************************)
(* performCreatePDF: the values it computes.                               *)
(***************************************************************************)
math_script == <<"<style><script>">>

\* math_script + processedMarkdown
stagingText(markdown_source) == math_script \o processedMarkdown(markdown_source)

\* what the conversion engine makes of a staging text
Render(text) == <<"%PDF">> \o text

\* a URL built from the path of the PDF instead of the fixed base
downloadUrl_fromSavePath(file_name) == <<"http://localhost:8000">> \o pdfPathOf(file_name)

\* `http://localhost:8000/${file_name}.pdf`
downloadUrl(file_name) == <<"http://localhost:8000/">> \o file_name \o <<".pdf">>

(***************************************************************************)
(* Responses of the call handler.                                          *)
(***************************************************************************)
NoResp == [isError |-> FALSE, head |-> "", msg |-> "", file_name |-> <<>>,
           download_url |-> <<>>]

\* JSON.stringify(results, null, 2) as the text of a response with isError false
successResponse(file_name) ==
    [isError |-> FALSE, head |-> "json", msg |-> "", file_name |-> file_name,
     download_url |-> downloadUrl(file_name)]

\* the response after the last if: `Unknown tool: ${name}`
unknownToolResponse(name) ==
    [isError |-> TRUE, head |-> "Unknown tool: ", msg |-> name, file_name |-> <<>>,
     download_url |-> <<>>]

\* a catch block that reports the failure without flagging it
catchError_unflagged(message) ==
    [isError |-> FALSE, head |-> "Error: ", msg |-> message, file_name |-> <<>>,
     download_url |-> <<>>]

\* the catch block: `Error: ${error.message}`
catchError(message) ==
    [isError |-> TRUE, head |-> "Error: ", msg |-> message, file_name |-> <<>>,
     download_url |-> <<>>]

NoArgumentsMsg == "No arguments provided"
InvalidArgumentsMsg == "Invalid arguments for create_pdf"
WriteErrorMsg == "EACCES: permission denied"
ConversionErrorMsg == "Failed to launch the browser process"
TimeoutErrorMsg == "Timed out after 30000 ms"

\* a handler that looks at the tool name before it looks at the arguments
Dispatch_nameFirst(r) ==
    IF r.name = "create_pdf"
    THEN IF ~Truthy(r.arguments)
         THEN [to |-> "respond", resp |-> catchError(NoArgumentsMsg)]
         ELSE IF ~isCreatePDFArgs(r.arguments)
              THEN [to |-> "respond", resp |-> catchError(InvalidArgumentsMsg)]
              ELSE [to |-> "pipeline", resp |-> NoResp]
    ELSE [to |-> "respond", resp |-> unknownToolResponse(r.name)]

\* The handler up to its first await: either it returns a response at once
\* or performCreatePDF has called writeFile.
Dispatch(r) ==
    IF ~Truthy(r.arguments)
    THEN [to |-> "respond", resp |-> catchError(NoArgumentsMsg)]
    ELSE IF r.name = "create_pdf"
         THEN IF ~isCreatePDFArgs(r.arguments)
              THEN [to |-> "respond", resp |-> catchError(InvalidArgumentsMsg)]
              ELSE [to |-> "pipeline", resp |-> NoResp]
         ELSE [to |-> "respond", resp |-> unknownToolResponse(r.name)]

\* a write with flag 'wx' semantics that keeps an existing file
writeFile_keepExisting(files, path, content) ==
    [x \in DOMAIN files \cup {path} |->
        IF x = path /\ x \notin DOMAIN files THEN content ELSE files[x]]

\* fs.writeFile with the default flag 'w': the file is created or replaced
writeFile(files, path, content) ==
    [x \in DOMAIN files \cup {path} |-> IF x = path THEN content ELSE files[x]]

fileNameOf(p) == req[p].arguments.file_name.val
markdownOf(p) == req[p].arguments.markdown_source.val
mdPath(p) == ResolvePath(mdPathOf(fileNameOf(p)))
pdfPath(p) == ResolvePath(pdfPathOf(fileNameOf(p)))

(***************************************************************************)
(* The server: requests arrive, each runs the handler; the handler yields  *)
(* at its two awaits (writeFile, mdToPdf), where other requests run.       *)
(***************************************************************************)
PreIdle == psrc = <<>> /\ pout = <<>> /\ pstage = "off"

ServerInit ==
    /\ fs = <<>>
    /\ pc = [p \in Procs |-> "idle"]
    /\ req = [p \in Procs |-> NoReq]
    /\ held = [p \in Procs |-> <<>>]
    /\ resp = [p \in Procs |-> NoResp]
    /\ log = [p \in Procs |-> <<>>]
    /\ everFailed = FALSE

Init ==
    /\ env \in {Unset, EnvSavePath}
    /\ remaining = MaxRequests
    /\ ServerInit
    /\ PreIdle

respond(p, r) ==
    /\ pc' = [pc EXCEPT ![p] = "responded"]
    /\ resp' = [resp EXCEPT ![p] = r]
    /\ everFailed' = (everFailed \/ r.isError)

\* a request arrives and the handler runs to its first await or to its return
Receive(p) ==
    /\ pc[p] = "idle"
    /\ remaining > 0
    /\ \E r \in Requests :
        /\ req' = [req EXCEPT ![p] = r]
        /\ remaining' = remaining - 1
        /\ IF Dispatch(r).to = "respond"
           THEN /\ respond(p, Dispatch(r).resp)
                /\ UNCHANGED log
           ELSE /\ pc' = [pc EXCEPT ![p] = "writing"]
                /\ log' = [log EXCEPT ![p] = <<"writeFile">>]
                /\ UNCHANGED <<resp, everFailed>>
    /\ UNCHANGED <<env, fs, held, psrc, pout, pstage>>

\* await writeFile(...) returns; mdToPdf is called
WriteOk(p) ==
    /\ pc[p] = "writing"
    /\ fs' = writeFile(fs, mdPath(p), stagingText(markdownOf(p)))
    /\ pc' = [pc EXCEPT ![p] = "engine"]
    /\ log' = [log EXCEPT ![p] = @ \o <<"written", "mdToPdf">>]
    /\ UNCHANGED <<env, req, held, resp, remaining, everFailed, psrc, pout, pstage>>

\* a writeFile whose rejection is not awaited: the engine is called all the same
WriteFail_notAwaited(p) ==
    /\ pc[p] = "writing"
    /\ fs' = writeFile(fs, mdPath(p), <<>>)
    /\ log' = [log EXCEPT ![p] = @ \o <<"writeFile threw", "mdToPdf">>]
    /\ pc' = [pc EXCEPT ![p] = "engine"]
    /\ UNCHANGED <<env, req, held, resp, remaining, everFailed, psrc, pout, pstage>>

\* await writeFile(...) throws: the file is as it was (the open failed) or is
\* left empty (the open truncated it and the write failed)
WriteFail(p) ==
    /\ pc[p] = "writing"
    /\ \/ UNCHANGED fs
       \/ fs' = writeFile(fs, mdPath(p), <<>>)
    /\ log' = [log EXCEPT ![p] = @ \o <<"writeFile threw">>]
    /\ respond(p, catchError(WriteErrorMsg))
    /\ UNCHANGED <<env, req, held, remaining, psrc, pout, pstage>>

\* the conversion engine reads the staging file
EngineRead(p) ==
    /\ pc[p] = "engine"
    /\ mdPath(p) \in DOMAIN fs
    /\ held' = [held EXCEPT ![p] = fs[mdPath(p)]]
    /\ pc' = [pc EXCEPT ![p] = "rendering"]
    /\ UNCHANGED <<env, fs, req, resp, log, remaining, everFailed,
                   psrc, pout, pstage>>

\* await mdToPdf(...) returns: the PDF is at dest; the handler returns the result
EngineOk(p) ==
    /\ pc[p] = "rendering"
    /\ fs' = writeFile(fs, pdfPath(p), Render(held[p]))
    /\ log' = [log EXCEPT ![p] = @ \o <<"converted">>]
    /\ respond(p, successResponse(fileNameOf(p)))
    /\ UNCHANGED <<env, req, held, remaining, psrc, pout, pstage>>

\* await mdToPdf(...) throws, before or after the engine has read the file
EngineFail(p) ==
    /\ pc[p] \in {"engine", "rendering"}
    /\ log' = [log EXCEPT ![p] = @ \o <<"mdToPdf threw">>]
    /\ respond(p, catchError(ConversionErrorMsg))
    /\ UNCHANGED <<env, fs, req, held, remaining, psrc, pout, pstage>>

\* an engine call without a timeout: the promise never settles
EngineTimeout_hang(p) ==
    /\ pc[p] = "rendering"
    /\ log' = [log EXCEPT ![p] = @ \o <<"mdToPdf timed out">>]
    /\ pc' = [pc EXCEPT ![p] = "hung"]
    /\ UNCHANGED <<env, fs, req, held, resp, remaining, everFailed, psrc, pout, pstage>>

\* pdf_options.timeout elapses while the page is rendered: mdToPdf throws
EngineTimeout(p) ==
    /\ pc[p] = "rendering"
    /\ log' = [log EXCEPT ![p] = @ \o <<"mdToPdf timed out">>]
    /\ respond(p, catchError(TimeoutErrorMsg))
    /\ UNCHANGED <<env, fs, req, held, remaining, psrc, pout, pstage>>

\* the response is sent; nothing of the request is kept
Return(p) ==
    /\ pc[p] = "responded"
    /\ pc' = [pc EXCEPT ![p] = "idle"]
    /\ req' = [req EXCEPT ![p] = NoReq]
    /\ resp' = [resp EXCEPT ![p] = NoResp]
    /\ held' = [held EXCEPT ![p] = <<>>]
    /\ log' = [log EXCEPT ![p] = <<>>]
    /\ UNCHANGED <<env, fs, remaining, everFailed, psrc, pout, pstage>>

Next ==
    \E p \in Procs :
        \/ Receive(p)
        \/ WriteOk(p)
        \/ WriteFail(p)
        \/ EngineRead(p)
        \/ EngineOk(p)
        \/ EngineFail(p)
        \/ EngineTimeout(p)
        \/ Return(p)

Spec == Init /\ [][Next]_vars

(***************************************************************************)
(* The fair specification: an awaited promise settles.  writeFile returns  *)
(* or throws; mdToPdf reads, then returns, throws or times out.            *)
(***************************************************************************)
Settle(p) ==
    \/ WriteOk(p)
    \/ WriteFail(p)
    \/ EngineRead(p)
    \/ EngineOk(p)
    \/ EngineFail(p)
    \/ EngineTimeout(p)

FairInit ==
    /\ env = Unset
    /\ remaining = MaxFairRequests
    /\ ServerInit
    /\ PreIdle

FairSpec == FairInit /\ [][Next]_vars /\ \A p \in Procs : WF_vars(Settle(p))

(***************************************************************************)
(* The preprocessor on its own: every markdown_source of at most MaxLen    *)
(* tokens, and the replace applied to it.                                  *)
(***************************************************************************)
PreInit ==
    /\ env = Unset
    /\ remaining = 0
    /\ ServerInit
    /\ psrc \in SeqsUpTo(Tok, MaxLen)
    /\ pout = <<>>
    /\ pstage = "ready"

Preprocess ==
    /\ pstage = "ready"
    /\ pout' = processedMarkdown(psrc)
    /\ pstage' = "done"
    /\ UNCHANGED <<env, fs, pc, req, held, resp, log, remaining, everFailed, psrc>>

PreNext == Preprocess

SpecPre == PreInit /\ [][PreNext]_vars

(***************************************************************************)
(* C1.  What the claim asks of the preprocessor, read off the document     *)
(* line by line: a diagram fence is an opening line ```mermaid, the lines  *)
(* up to the next closing line (a line of backticks only), and that        *)
(* closing line; its inner content is the text between the two.            *)
(***************************************************************************)
\* the end of the line that starts at i: the position of its newline, or Len + 1
LineEnd(s, i) ==
    LET ns == {k \in i..Len(s) : s[k] = "N"}
    IN  IF ns = {} THEN Len(s) + 1 ELSE CHOOSE k \in ns : \A m \in ns : k <= m

LineAt(s, i) == SubSeq(s, i, LineEnd(s, i) - 1)

IsLineStart(s, i) == i = 1 \/ s[i - 1] = "N"

IsClosingLine(line) == line # <<>> /\ \A k \in 1..Len(line) : line[k] = "F"

\* the start of the first closing line after the opening line that ends at e; 0 if none
ClosingLineAfter(s, e) ==
    LET cs == {c \in (e + 1)..Len(s) : IsLineStart(s, c) /\ IsClosingLine(LineAt(s, c))}
    IN  IF cs = {} THEN 0 ELSE CHOOSE c \in cs : \A m \in cs : c <= m

\* s without its leading and trailing white space
Trimmed(s) ==
    LET keep == {k \in 1..Len(s) : ~IsSpace(s[k])}
    IN  IF keep = {} THEN <<>>
        ELSE SubSeq(s, CHOOSE a \in keep : \A k \in keep : a <= k,
                       CHOOSE b \in keep : \A k \in keep : b >= k)

Container(content) == <<"<div class=\"mermaid\">", "N">> \o content \o <<"N", "</div>">>

\* the text the claim describes, from the line that starts at i
RECURSIVE ExpectedFrom(_, _)
ExpectedFrom(s, i) ==
    IF i > Len(s) THEN <<>>
    ELSE LET e == LineEnd(s, i)
             c == IF LineAt(s, i) = <<"F", "M">> /\ e <= Len(s)
                  THEN ClosingLineAfter(s, e) ELSE 0
         IN  IF c # 0
             THEN LET ce == LineEnd(s, c)
                  IN  Container(Trimmed(SubSeq(s, e + 1, c - 2)))
                        \o (IF ce <= Len(s) THEN <<"N">> ELSE <<>>)
                        \o ExpectedFrom(s, ce + 1)
             ELSE SubSeq(s, i, IF e <= Len(s) THEN e ELSE Len(s)) \o ExpectedFrom(s, e + 1)

Expected(s) == ExpectedFrom(s, 1)

\* C1: the preprocessing replaces each well-formed diagram fence by one
\* container around its trimmed inner content, in order, and leaves every
\* other character where it was.
C1_EveryFenceReplaced == pstage = "done" => pout = Expected(psrc)

(***************************************************************************)
(* The claims about the server.                                            *)
(***************************************************************************)
InFlight(p) == pc[p] \in {"writing", "engine", "rendering"}
Responded(p) == pc[p] = "responded"
LastOf(l) == IF l = <<>> THEN "" ELSE l[Len(l)]
Occurrences(l, e) == Cardinality({k \in 1..Len(l) : l[k] = e})
IsPrefix(a, b) == Len(a) <= Len(b) /\ SubSeq(b, 1, Len(a)) = a
FencedDoc == <<"F", "M", "N", "A", "N", "F">>

\* C2: a create_pdf call that succeeds returns isError false and exactly
\* {file_name, download_url = "http://localhost:8000/" + file_name + ".pdf"};
\* the URL is a function of file_name alone.
C2_SuccessResult ==
    \A p \in Procs :
        (Responded(p) /\ LastOf(log[p]) = "converted") =>
            resp[p] = [isError |-> FALSE, head |-> "json", msg |-> "",
                       file_name |-> fileNameOf(p),
                       download_url |-> <<"http://localhost:8000/">> \o fileNameOf(p)
                                          \o <<".pdf">>]

C2_Witness ==
    \E p \in Procs :
        /\ Responded(p) /\ ~resp[p].isError
        /\ env = EnvSavePath
        /\ fileNameOf(p) = <<"a">>
        /\ markdownOf(p) = FencedDoc
        /\ resp[p].download_url = <<"http://localhost:8000/", "a", ".pdf">>

\* C3: a create_pdf request whose file_name or markdown_source is absent or
\* not a string gets a failure response about its arguments, and neither
\* writeFile nor the conversion engine is called for it.
BadCreateArgs(r) ==
    /\ r.name = "create_pdf"
    /\ \/ r.arguments.file_name.kind # "string"
       \/ r.arguments.markdown_source.kind # "string"

C3_InvalidArgsRejected ==
    \A p \in Procs :
        (pc[p] # "idle" /\ BadCreateArgs(req[p])) =>
            /\ Responded(p)
            /\ resp[p].isError
            /\ resp[p].head = "Error: "
            /\ resp[p].msg = IF req[p].arguments.kind = "object"
                             THEN "Invalid arguments for create_pdf"
                             ELSE "No arguments provided"
            /\ log[p] = <<>>

C3_Witness ==
    \E p \in Procs :
        /\ Responded(p)
        /\ req[p].name = "create_pdf"
        /\ req[p].arguments.kind = "object"
        /\ req[p].arguments.file_name = Str(<<"a">>)
        /\ req[p].arguments.markdown_source = Undefined
        /\ resp[p].msg = "Invalid arguments for create_pdf"
        /\ DOMAIN fs # {}

\* C4: success is returned only after the staging write and then the engine
\* call have both completed; a failed write means no engine call; a failed
\* write or engine call (a timeout included) means a failure response, which
\* names no PDF; a success response names a PDF that exists.
Runs ==
    {<<"writeFile", "written", "mdToPdf", "converted">>,
     <<"writeFile", "written", "mdToPdf", "mdToPdf threw">>,
     <<"writeFile", "written", "mdToPdf", "mdToPdf timed out">>,
     <<"writeFile", "writeFile threw">>}

C4_SuccessOnlyAfterWriteThenEngine ==
    \A p \in Procs :
        /\ \E run \in Runs : IsPrefix(log[p], run)
        /\ (Responded(p) /\ ~resp[p].isError) =>
              /\ log[p] = <<"writeFile", "written", "mdToPdf", "converted">>
              /\ pdfPath(p) \in DOMAIN fs
              /\ Head(fs[pdfPath(p)]) = "%PDF"
        /\ LastOf(log[p]) \in {"writeFile threw", "mdToPdf threw", "mdToPdf timed out"} =>
              /\ Responded(p)
              /\ resp[p].isError
              /\ resp[p].download_url = <<>>

C4_Witness ==
    \E p \in Procs :
        /\ Responded(p) /\ resp[p].isError
        /\ log[p] = <<"writeFile", "written", "mdToPdf", "mdToPdf threw">>
        /\ mdPath(p) \in DOMAIN fs
        /\ pdfPath(p) \notin DOMAIN fs

\* C5: every error raised while a call is handled ends in one failure
\* response with isError true and the error's message; nothing is retried;
\* the handler is in no state but those of the pipeline; and a slot that is
\* idle again keeps nothing of the failed request and accepts the next one.
ThrownMessage(p) ==
    IF LastOf(log[p]) = "writeFile threw" THEN "EACCES: permission denied"
    ELSE IF LastOf(log[p]) = "mdToPdf threw" THEN "Failed to launch the browser process"
    ELSE IF LastOf(log[p]) = "mdToPdf timed out" THEN "Timed out after 30000 ms"
    ELSE IF ~Truthy(req[p].arguments) THEN "No arguments provided"
    ELSE IF BadCreateArgs(req[p]) THEN "Invalid arguments for create_pdf"
    ELSE ""

C5_ErrorsBecomeFailureResponses ==
    \A p \in Procs :
        /\ pc[p] \in {"idle", "writing", "engine", "rendering", "responded"}
        /\ (pc[p] # "idle" /\ ThrownMessage(p) # "") =>
              /\ Responded(p)
              /\ resp[p] = [isError |-> TRUE, head |-> "Error: ", msg |-> ThrownMessage(p),
                            file_name |-> <<>>, download_url |-> <<>>]
        /\ Occurrences(log[p], "writeFile") <= 1
        /\ Occurrences(log[p], "mdToPdf") <= 1
        /\ pc[p] = "idle" =>
              /\ req[p] = NoReq /\ resp[p] = NoResp /\ log[p] = <<>> /\ held[p] = <<>>
              /\ remaining > 0 => ENABLED Receive(p)

\* a success response given after some request has failed
C5_Witness ==
    \E p \in Procs :
        /\ everFailed
        /\ Responded(p) /\ ~resp[p].isError
        /\ \A q \in Procs \ {p} : pc[q] = "idle"

\* C6: no lock: a completed write replaces whatever the file held, so the
\* last writer wins, and the engine renders what the staging file holds when
\* it reads it, whichever request wrote that.
C6_LastWriterWins ==
    [][\A p \in Procs :
          /\ (pc[p] = "writing" /\ pc'[p] = "engine") =>
                /\ mdPath(p) \in DOMAIN fs'
                /\ fs'[mdPath(p)] = stagingText(markdownOf(p))
          /\ (pc[p] = "engine" /\ pc'[p] = "rendering") => held'[p] = fs[mdPath(p)]
          /\ (pc[p] = "rendering" /\ pc'[p] = "responded" /\ ~resp'[p].isError) =>
                /\ pdfPath(p) \in DOMAIN fs'
                /\ fs'[pdfPath(p)] = Render(held[p])]_vars

\* two requests with one file_name: p is answered with success and its PDF
\* is rendered from q's markdown, q having written between p's write and
\* p's engine read
C6_Witness ==
    \E p \in Procs : \E q \in Procs \ {p} :
        /\ Responded(p) /\ ~resp[p].isError
        /\ pc[q] # "idle" /\ "written" \in {log[q][k] : k \in 1..Len(log[q])}
        /\ fileNameOf(p) = fileNameOf(q)
        /\ markdownOf(p) # markdownOf(q)
        /\ stagingText(markdownOf(p)) # stagingText(markdownOf(q))
        /\ held[p] = stagingText(markdownOf(q))
        /\ fs[pdfPath(p)] = Render(stagingText(markdownOf(q)))
        /\ fs[mdPath(p)] = stagingText(markdownOf(q))

\* C7: every request is eventually answered (the handler is in no state
\* but those of the pipeline, each of which a settling await leaves), and a
\* request whose engine call timed out is answered with a failure.
C7_EventuallyAnswered ==
    /\ \A p \in Procs : (pc[p] # "idle") ~> Responded(p)
    /\ [](\A p \in Procs :
            /\ pc[p] \in {"idle", "writing", "engine", "rendering", "responded"}
            /\ LastOf(log[p]) = "mdToPdf timed out" =>
                  /\ Responded(p)
                  /\ resp[p].isError
                  /\ resp[p].msg = "Timed out after 30000 ms")

C7_Witness ==
    \E p \in Procs :
        /\ Responded(p)
        /\ LastOf(log[p]) = "mdToPdf timed out"
        /\ resp[p].isError

\* C8 as claimed: a request that names another tool than create_pdf always
\* gets the failure "Unknown tool: <name>", whatever its other fields.
C8_UnknownToolAlways ==
    \A p \in Procs :
        (pc[p] # "idle" /\ req[p].name # "create_pdf") =>
            /\ Responded(p)
            /\ resp[p].isError
            /\ resp[p].head = "Unknown tool: "
            /\ resp[p].msg = req[p].name

\* C8 as amended: the arguments are looked at first.  A request without
\* arguments gets "Error: No arguments provided" whatever tool it names; a
\* request with arguments that names another tool gets "Unknown tool: <name>";
\* create_pdf with malformed arguments gets "Error: Invalid arguments for
\* create_pdf"; a write or conversion failure gets "Error: " and its message.
C8_MessageKinds ==
    \A p \in Procs :
        Responded(p) =>
            /\ ~Truthy(req[p].arguments) =>
                  /\ resp[p].isError /\ resp[p].head = "Error: "
                  /\ resp[p].msg = "No arguments provided"
            /\ (Truthy(req[p].arguments) /\ req[p].name # "create_pdf") =>
                  /\ resp[p].isError /\ resp[p].head = "Unknown tool: "
                  /\ resp[p].msg = req[p].name
            /\ (Truthy(req[p].arguments) /\ BadCreateArgs(req[p])) =>
                  /\ resp[p].isError /\ resp[p].head = "Error: "
                  /\ resp[p].msg = "Invalid arguments for create_pdf"
            /\ LastOf(log[p]) = "writeFile threw" =>
                  /\ resp[p].isError /\ resp[p].head = "Error: "
                  /\ resp[p].msg = "EACCES: permission denied"
            /\ LastOf(log[p]) = "mdToPdf threw" =>
                  /\ resp[p].isError /\ resp[p].head = "Error: "
                  /\ resp[p].msg = "Failed to launch the browser process"
            /\ LastOf(log[p]) = "mdToPdf timed out" =>
                  /\ resp[p].isError /\ resp[p].head = "Error: "
                  /\ resp[p].msg = "Timed out after 30000 ms"

\* both orders of the two defects: another tool without arguments, and
\* another tool with arguments
C8_Witness ==
    \E p \in Procs : \E q \in Procs \ {p} :
        /\ Responded(p) /\ Responded(q)
        /\ req[p].name = "other_tool" /\ ~Truthy(req[p].arguments)
        /\ resp[p].msg = "No arguments provided"
        /\ req[q].name = "other_tool" /\ Truthy(req[q].arguments)
        /\ resp[q].head = "Unknown tool: "

\* C9 as claimed: every file the handler writes is directly inside the
\* configured output directory.
C9_NoTraversal ==
    \A path \in DOMAIN fs : DirOf(path) = ResolvePath(save_path)

\* C10 as claimed: the pipeline runs only for a non-empty file_name and a
\* non-empty markdown_source.
C10_NonEmptyFields ==
    \A p \in Procs :
        (InFlight(p) \/ log[p] # <<>>) =>
            /\ fileNameOf(p) # <<>>
            /\ markdownOf(p) # <<>>

====
